---- MODULE Spec2Model ----
(***************************************************************************)
(* A model of py_terminal (src/main.py): the read-eval-print loop, the     *)
(* shell tokenizer it calls (shlex.split), the history file and the        *)
(* line-editing history, the filesystem builtins, and tab completion.      *)
(*                                                                         *)
(* Text is modelled as sequences of one-character strings, so that         *)
(* tokenizing, joining, prefix matching and ~ expansion are computed       *)
(* character by character.  Filesystem paths of the builtins are sequences *)
(* of path components.                                                     *)
(*                                                                         *)
(* Four specifications share the module, each driving one part while the   *)
(* variables of the other parts stay at their idle values:                 *)
(*   Spec      the session loop            (main_loop, __main__)           *)
(*   TokSpec   the tokenizer on all short lines                            *)
(*   FsSpec    one builtin call on a small filesystem                      *)
(*   CompSpec  the completer called with ordinals 0, 1, 2, ...             *)
(***************************************************************************)
EXTENDS Integers, Sequences, FiniteSets, TLC

VARIABLES
    \* ---- session loop
    pc,              \* position of the process in main_loop / __main__
    readlineAvail,   \* READLINE_AVAILABLE
    line,            \* the line returned by input()
    parts,           \* shlex.split(line)
    histFile,        \* lines of HISTORY_FILE
    histExists,      \* whether HISTORY_FILE exists
    rlHistory,       \* the in-memory history of the readline library
    printed,         \* what the current iteration printed
    outcome,         \* how the executed command ended
    pending,         \* the exception propagating out of the loop
    persistCalls,    \* calls of save_history_on_exit in this process
    consumed,        \* the lines input() returned in this process
    fileAtStart,     \* HISTORY_FILE's lines when the process started
    nread,           \* lines read over all sessions
    \* ---- tokenizer
    tkPc, tkLine, tkFirst, tkJoined, tkSecond,
    \* ---- filesystem builtins
    fsPc, fs, fs0, cwd, fsCmd, fsArgs, fsTodo, fsDest, fsOuts, sysPaths,
    \* ---- completion
    cPc, cText, cBegidx, cPathDirs, cState, cResults

loopVars == <<pc, readlineAvail, line, parts, histFile, histExists, rlHistory,
              printed, outcome, pending, persistCalls, consumed, fileAtStart,
              nread>>
tokVars == <<tkPc, tkLine, tkFirst, tkJoined, tkSecond>>
fsVars == <<fsPc, fs, fs0, cwd, fsCmd, fsArgs, fsTodo, fsDest, fsOuts,
            sysPaths>>
compVars == <<cPc, cText, cBegidx, cPathDirs, cState, cResults>>
vars == <<loopVars, tokVars, fsVars, compVars>>

(***************************************************************************)
(* Bounds of the model.                                                    *)
(***************************************************************************)
MaxLineLen == 5
MaxInputs == 3
MaxArgs == 3
MaxPathDirs == 2

(***************************************************************************)
(* Generic sequence helpers.                                               *)
(***************************************************************************)
Range(s) == {s[i] : i \in 1..Len(s)}

Last(s) == s[Len(s)]

Front(s) == SubSeq(s, 1, Len(s) - 1)

SeqsUpTo(S, n) == UNION {[1..k -> S] : k \in 0..n}

StartsWith(s, p) == Len(p) <= Len(s) /\ SubSeq(s, 1, Len(p)) = p

NoDuplicates(s) == \A i, j \in 1..Len(s) : i # j => s[i] # s[j]

(***************************************************************************)
(* The tokenizer: shlex.split(line), i.e. a POSIX-mode shlex with          *)
(* whitespace_split set and no comment characters.  ShlexStep is one turn  *)
(* of shlex.read_token's character loop; the lexer state (' ', 'a', a      *)
(* quote, the escape character) is kept across tokens as shlex keeps it.   *)
(***************************************************************************)
Whitespace == {" "}
Quotes == {"'", "\""}
Escape == {"\\"}
EscapedQuotes == {"\""}

\* The messages of shlex's ValueError.
T_NoClosingQuotation == <<"N", "o", " ", "c", "l", "o", "s", "i", "n", "g", " ", "q", "u", "o", "t", "a", "t", "i", "o", "n">>
T_NoEscapedCharacter == <<"N", "o", " ", "e", "s", "c", "a", "p", "e", "d", " ", "c", "h", "a", "r", "a", "c", "t", "e", "r">>

ShlexInit == [state |-> " ", escapedstate |-> " ", token |-> <<>>,
              quoted |-> FALSE, out |-> <<>>]

\* A token ends: it is delivered and the per-token fields are reset.
ShlexEmit(st, nextState) ==
    [st EXCEPT !.state = nextState, !.out = Append(st.out, st.token),
               !.token = <<>>, !.quoted = FALSE]

ShlexStep(st, c) ==
    CASE st.state = " " ->
            IF c \in Whitespace THEN st
            ELSE IF c \in Escape
                 THEN [st EXCEPT !.escapedstate = "a", !.state = c]
            ELSE IF c \in Quotes THEN [st EXCEPT !.state = c]
            ELSE [st EXCEPT !.token = <<c>>, !.state = "a"]
      [] st.state \in Quotes ->
            IF c = st.state THEN [st EXCEPT !.quoted = TRUE, !.state = "a"]
            ELSE IF c \in Escape /\ st.state \in EscapedQuotes
                 THEN [st EXCEPT !.quoted = TRUE, !.escapedstate = st.state,
                                 !.state = c]
            ELSE [st EXCEPT !.quoted = TRUE, !.token = Append(st.token, c)]
      [] st.state \in Escape ->
            IF st.escapedstate \in Quotes /\ c # st.state
               /\ c # st.escapedstate
            THEN [st EXCEPT !.token = st.token \o <<st.state, c>>,
                            !.state = st.escapedstate]
            ELSE [st EXCEPT !.token = Append(st.token, c),
                            !.state = st.escapedstate]
      [] OTHER ->  \* state 'a': inside a word
            IF c \in Whitespace THEN ShlexEmit(st, " ")
            ELSE IF c \in Quotes THEN [st EXCEPT !.state = c]
            ELSE IF c \in Escape
                 THEN [st EXCEPT !.escapedstate = "a", !.state = c]
            ELSE [st EXCEPT !.token = Append(st.token, c)]

RECURSIVE ShlexRun(_, _)
ShlexRun(st, s) ==
    IF s = <<>> THEN st ELSE ShlexRun(ShlexStep(st, Head(s)), Tail(s))

\* Mutant of Tokenize: the word in progress at the end of the line is lost.
Tokenize_DropsLastWord(s) ==
    LET st == ShlexRun(ShlexInit, s)
    IN  IF st.state \in Quotes
        THEN [ok |-> FALSE, tokens |-> <<>>, err |-> T_NoClosingQuotation]
        ELSE IF st.state \in Escape
        THEN [ok |-> FALSE, tokens |-> <<>>, err |-> T_NoEscapedCharacter]
        ELSE [ok |-> TRUE, tokens |-> st.out, err |-> <<>>]

\* End of input: an open quote or a dangling escape raises ValueError; a
\* word in progress is delivered.
Tokenize(s) ==
    LET st == ShlexRun(ShlexInit, s)
    IN  IF st.state \in Quotes
        THEN [ok |-> FALSE, tokens |-> <<>>, err |-> T_NoClosingQuotation]
        ELSE IF st.state \in Escape
        THEN [ok |-> FALSE, tokens |-> <<>>, err |-> T_NoEscapedCharacter]
        ELSE IF st.state = "a"
        THEN [ok |-> TRUE, tokens |-> Append(st.out, st.token), err |-> <<>>]
        ELSE [ok |-> TRUE, tokens |-> st.out, err |-> <<>>]

\* " ".join(tokens)
RECURSIVE JoinSpaces(_)
JoinSpaces(toks) ==
    IF toks = <<>> THEN <<>>
    ELSE IF Len(toks) = 1 THEN toks[1]
    ELSE toks[1] \o <<" ">> \o JoinSpaces(Tail(toks))

(***************************************************************************)
(* Idle values: a specification leaves the parts it does not drive here.   *)
(***************************************************************************)
LoopIdle ==
    /\ pc = "idle" /\ readlineAvail = FALSE /\ line = <<>> /\ parts = <<>>
    /\ histFile = <<>> /\ histExists = FALSE /\ rlHistory = <<>>
    /\ printed = <<>> /\ outcome = "none" /\ pending = "none"
    /\ persistCalls = 0 /\ consumed = <<>> /\ fileAtStart = <<>> /\ nread = 0

TokIdle ==
    /\ tkPc = "idle" /\ tkLine = <<>> /\ tkFirst = Tokenize(<<>>)
    /\ tkJoined = <<>> /\ tkSecond = Tokenize(<<>>)

FsIdle ==
    /\ fsPc = "idle" /\ fs = <<>> /\ fs0 = <<>> /\ cwd = <<>> /\ fsCmd = "none"
    /\ fsArgs = <<>> /\ fsTodo = <<>> /\ fsDest = <<>> /\ fsOuts = <<>>
    /\ sysPaths = <<>>

CompIdle ==
    /\ cPc = "idle" /\ cText = <<>> /\ cBegidx = 0 /\ cPathDirs = <<>>
    /\ cState = 0 /\ cResults = <<>>

(***************************************************************************)
(* TokSpec: every line of at most MaxLineLen characters over TokAlphabet   *)
(* is tokenized; the tokens of an accepted line are joined with single     *)
(* spaces and the joined text is tokenized again.                          *)
(***************************************************************************)
TokAlphabet == {"a", " ", "'", "\"", "\\"}

TokLines == SeqsUpTo(TokAlphabet, MaxLineLen)

TokInit ==
    /\ tkPc = "line" /\ tkLine \in TokLines /\ tkFirst = Tokenize(<<>>)
    /\ tkJoined = <<>> /\ tkSecond = Tokenize(<<>>)
    /\ LoopIdle /\ FsIdle /\ CompIdle

TkTokenize ==
    /\ tkPc = "line"
    /\ tkFirst' = Tokenize(tkLine)
    /\ tkPc' = IF tkFirst'.ok THEN "tokens" ELSE "error"
    /\ UNCHANGED <<tkLine, tkJoined, tkSecond, loopVars, fsVars, compVars>>

TkJoin ==
    /\ tkPc = "tokens"
    /\ tkJoined' = JoinSpaces(tkFirst.tokens)
    /\ tkPc' = "joined"
    /\ UNCHANGED <<tkLine, tkFirst, tkSecond, loopVars, fsVars, compVars>>

TkRetokenize ==
    /\ tkPc = "joined"
    /\ tkSecond' = Tokenize(tkJoined)
    /\ tkPc' = "done"
    /\ UNCHANGED <<tkLine, tkFirst, tkJoined, loopVars, fsVars, compVars>>

TokNext == TkTokenize \/ TkJoin \/ TkRetokenize

TokSpec == TokInit /\ [][TokNext]_vars

\* A token that re-parses to itself: not empty, and free of the characters
\* the tokenizer treats specially.
PlainToken(t) ==
    /\ t # <<>>
    /\ \A i \in 1..Len(t) : t[i] \notin Whitespace \cup Quotes \cup Escape

\* C8 (as stated): for every line with balanced quoting, tokenizing,
\* joining the tokens with single spaces and tokenizing again yields the
\* token sequence of the first tokenization.
C8_ReparseSameTokens ==
    tkPc = "done" => (tkSecond.ok /\ tkSecond.tokens = tkFirst.tokens)

\* C8 (amended): the round trip yields the same token sequence when every
\* token of the first tokenization is non-empty and contains no whitespace,
\* quote or backslash character.
C8_ReparsePlainTokens ==
    (tkPc = "done" /\ \A i \in 1..Len(tkFirst.tokens) :
                          PlainToken(tkFirst.tokens[i]))
        => (tkSecond.ok /\ tkSecond.tokens = tkFirst.tokens)

\* C8 witness: a quoted line of two plain tokens went through the round trip.
C8_Witness ==
    /\ tkPc = "done"
    /\ Len(tkFirst.tokens) = 2
    /\ \A i \in 1..2 : PlainToken(tkFirst.tokens[i])
    /\ \E i \in 1..Len(tkLine) : tkLine[i] \in Quotes
    /\ tkSecond.tokens = tkFirst.tokens

(***************************************************************************)
(* Command names and message texts, as character sequences.                *)
(***************************************************************************)
N_ls == <<"l", "s">>
N_cd == <<"c", "d">>
N_pwd == <<"p", "w", "d">>
N_mkdir == <<"m", "k", "d", "i", "r">>
N_rm == <<"r", "m">>
N_rmdir == <<"r", "m", "d", "i", "r">>
N_cat == <<"c", "a", "t">>
N_touch == <<"t", "o", "u", "c", "h">>
N_mv == <<"m", "v">>
N_cp == <<"c", "p">>
N_help == <<"h", "e", "l", "p">>
N_exit == <<"e", "x", "i", "t">>
N_quit == <<"q", "u", "i", "t">>
N_clear == <<"c", "l", "e", "a", "r">>
N_sysinfo == <<"s", "y", "s", "i", "n", "f", "o">>
N_ps == <<"p", "s">>
N_top == <<"t", "o", "p">>
N_history == <<"h", "i", "s", "t", "o", "r", "y">>
N_git == <<"g", "i", "t">>
N_qmark == <<"?">>

BUILTINS == <<N_ls, N_cd, N_pwd, N_mkdir, N_rm, N_rmdir, N_cat, N_touch, N_mv,
              N_cp, N_help, N_exit, N_quit, N_clear, N_sysinfo, N_ps, N_top,
              N_history>>

\* The keys of the DISPATCH table.
DISPATCH == {N_ls, N_cd, N_pwd, N_mkdir, N_rm, N_rmdir, N_cat, N_touch, N_mv,
             N_cp, N_clear, N_help, N_sysinfo, N_ps, N_top, N_history}

T_ColonError == <<":", " ", "e", "r", "r", "o", "r", ":", " ">>
T_NotFound == <<":", " ", "c", "o", "m", "m", "a", "n", "d", " ", "n", "o", "t", " ", "f", "o", "u", "n", "d">>
T_ExitedWith == <<"C", "o", "m", "m", "a", "n", "d", " ", "e", "x", "i", "t", "e", "d", " ", "w", "i", "t", "h", " ">>
T_ErrorRunning == <<"E", "r", "r", "o", "r", " ", "r", "u", "n", "n", "i", "n", "g", " ", "c", "o", "m", "m", "a", "n", "d", ":", " ">>
T_FatalError == <<"F", "a", "t", "a", "l", " ", "e", "r", "r", "o", "r", ":", " ">>
T_NoHistory == <<"(", "n", "o", " ", "h", "i", "s", "t", "o", "r", "y", ")">>
T_Farewell == <<"C", "o", "m", "m", "a", "n", "d", " ", "h", "i", "s", "t", "o", "r", "y", " ", "h", "a", "s", " ", "b", "e", "e", "n", " ", "s", "a", "v", "e", "d", ".", " ", "G", "o", "o", "d", "b", "y", "e", "!">>
T_HelpText == <<"B", "u", "i", "l", "t", "-", "i", "n", " ", "c", "o", "m", "m", "a", "n", "d", "s", ":">>
\* Stand-ins for texts the environment supplies: a command's output and an
\* exception's message.
T_Output == <<"o", "u", "t">>
T_ExcMsg == <<"b", "o", "o", "m">>

\* str(n) for a natural number.
Digit(d) == CASE d = 0 -> "0" [] d = 1 -> "1" [] d = 2 -> "2" [] d = 3 -> "3"
              [] d = 4 -> "4" [] d = 5 -> "5" [] d = 6 -> "6" [] d = 7 -> "7"
              [] d = 8 -> "8" [] OTHER -> "9"

RECURSIVE Str(_)
Str(n) == IF n < 10 THEN <<Digit(n)>> ELSE Append(Str(n \div 10), Digit(n % 10))

\* "\n".join(lines)
RECURSIVE JoinLines(_)
JoinLines(ls) ==
    IF ls = <<>> THEN <<>>
    ELSE IF Len(ls) = 1 THEN ls[1]
    ELSE ls[1] \o <<"\n">> \o JoinLines(Tail(ls))

(***************************************************************************)
(* The session loop.                                                       *)
(***************************************************************************)
\* The lines a user types in the model: empty, whitespace-only, builtins,
\* the session-ending commands, an external command, the help alias, and a
\* line with an unterminated quote.
LoopLines == {<<>>, <<" ">>, N_history, N_top, N_exit, N_quit, N_git,
              N_qmark, <<"'">>}

\* Mutant of StripIsEmpty: only the empty line counts as blank.
StripIsEmpty_EmptyOnly(l) == l = <<>>

\* not line.strip()
StripIsEmpty(l) == \A i \in 1..Len(l) : l[i] \in Whitespace

\* What input() does to the line-editing history when readline is loaded:
\* a non-empty line is added unless it repeats the newest entry.
ReadlineAutoAdd(h, l) ==
    IF readlineAvail /\ l # <<>> /\ (h = <<>> \/ Last(h) # l)
    THEN Append(h, l) ELSE h

\* cmd_history's numbering of the file's lines.
CmdHistoryNumbered(file) == [i \in 1..Len(file) |-> <<i, file[i]>>]

cmd_history ==
    IF histExists
    THEN JoinLines([i \in 1..Len(histFile) |->
                       Str(CmdHistoryNumbered(histFile)[i][1]) \o <<":", " ">>
                       \o CmdHistoryNumbered(histFile)[i][2]])
    ELSE T_NoHistory

\* Mutant of SaveHistoryOnExit: nothing is saved while an exception is
\* propagating.
SaveHistoryOnExit_CleanOnly ==
    IF pending = "none"
    THEN /\ persistCalls' = persistCalls + 1
         /\ histFile' = IF readlineAvail THEN rlHistory ELSE histFile
         /\ histExists' = (readlineAvail \/ histExists)
    ELSE UNCHANGED <<persistCalls, histFile, histExists>>

\* save_history_on_exit: the line-editing history overwrites the file.
SaveHistoryOnExit ==
    /\ persistCalls' = persistCalls + 1
    /\ histFile' = IF readlineAvail THEN rlHistory ELSE histFile
    /\ histExists' = (readlineAvail \/ histExists)

LoopInit ==
    /\ pc = "Start" /\ readlineAvail \in BOOLEAN /\ line = <<>> /\ parts = <<>>
    /\ histFile = <<>> /\ histExists = FALSE /\ rlHistory = <<>>
    /\ printed = <<>> /\ outcome = "none" /\ pending = "none"
    /\ persistCalls = 0 /\ consumed = <<>> /\ fileAtStart = <<>> /\ nread = 0
    /\ TokIdle /\ FsIdle /\ CompIdle

\* load_history: the file, when there is one, is read into the line-editing
\* history.
LoadHistory ==
    /\ pc = "Start"
    /\ rlHistory' = IF readlineAvail /\ histExists THEN rlHistory \o histFile
                    ELSE rlHistory
    /\ pc' = "Reading"
    /\ UNCHANGED <<readlineAvail, line, parts, histFile, histExists, printed,
                   outcome, pending, persistCalls, consumed, fileAtStart,
                   nread, tokVars, fsVars, compVars>>

\* input() returns a line; a blank one goes straight back to the prompt.
ReadLine ==
    /\ pc = "Reading"
    /\ nread < MaxInputs
    /\ \E l \in LoopLines :
          /\ line' = l
          /\ consumed' = Append(consumed, l)
          /\ rlHistory' = ReadlineAutoAdd(rlHistory, l)
          /\ pc' = IF StripIsEmpty(l) THEN "Reading" ELSE "Appending"
    /\ nread' = nread + 1
    /\ printed' = <<>>
    /\ outcome' = "none"
    /\ UNCHANGED <<readlineAvail, parts, histFile, histExists, pending,
                   persistCalls, fileAtStart, tokVars, fsVars, compVars>>

\* input() raises KeyboardInterrupt or EOFError: a newline, then break.
ReadEnd ==
    /\ pc = "Reading"
    /\ \E o \in {"eof", "interrupt"} : outcome' = o
    /\ printed' = <<"\n">>
    /\ pc' = "LoopFinally"
    /\ UNCHANGED <<readlineAvail, line, parts, histFile, histExists, rlHistory,
                   pending, persistCalls, consumed, fileAtStart, nread,
                   tokVars, fsVars, compVars>>

\* append_history_line(line)
AppendHistoryLine ==
    /\ pc = "Appending"
    /\ histFile' = Append(histFile, line)
    /\ histExists' = TRUE
    /\ pc' = "Tokenizing"
    /\ UNCHANGED <<readlineAvail, line, parts, rlHistory, printed, outcome,
                   pending, persistCalls, consumed, fileAtStart, nread,
                   tokVars, fsVars, compVars>>

\* parts = shlex.split(line): its ValueError is caught nowhere in the loop.
TokenizeLine ==
    /\ pc = "Tokenizing"
    /\ LET r == Tokenize(line)
       IN  IF r.ok
           THEN /\ parts' = r.tokens
                /\ pc' = IF r.tokens = <<>> THEN "Reading" ELSE "Resolving"
                /\ UNCHANGED <<pending, outcome>>
           ELSE /\ pending' = "ValueError"
                /\ outcome' = "tokenize_error"
                /\ pc' = "LoopFinally"
                /\ UNCHANGED parts
    /\ UNCHANGED <<readlineAvail, line, histFile, histExists, rlHistory,
                   printed, persistCalls, consumed, fileAtStart, nread,
                   tokVars, fsVars, compVars>>

\* cmd = parts[0]: exit and quit break out of the loop.
Resolve ==
    /\ pc = "Resolving"
    /\ IF parts[1] \in {N_exit, N_quit}
       THEN pc' = "LoopFinally" /\ outcome' = "exit"
       ELSE pc' = "Executing" /\ UNCHANGED outcome
    /\ UNCHANGED <<readlineAvail, line, parts, histFile, histExists, rlHistory,
                   printed, pending, persistCalls, consumed, fileAtStart,
                   nread, tokVars, fsVars, compVars>>

\* Mutant of ExecBuiltin: the handler's exception is not caught and leaves
\* the loop.
ExecBuiltin_Propagates ==
    /\ pc = "Executing"
    /\ parts[1] \in DISPATCH
    /\ \E o \in {"returned_text", "returned_empty", "raised"} :
          /\ parts[1] \in {N_history, N_help} => o = "returned_text"
          /\ outcome' = o
          /\ printed' = IF o = "returned_text" THEN T_Output ELSE <<>>
          /\ pending' = IF o = "raised" THEN "ValueError" ELSE pending
          /\ pc' = IF o = "raised" THEN "LoopFinally" ELSE "Reading"
    /\ UNCHANGED <<readlineAvail, line, parts, histFile, histExists, rlHistory,
                   persistCalls, consumed, fileAtStart, nread,
                   tokVars, fsVars, compVars>>

\* DISPATCH[cmd](args) under the loop's try/except: the handler's result is
\* printed when non-empty, its exception is rendered as text.  cmd_history
\* reads the file; the other handlers are taken by their outcome.
ExecBuiltin ==
    /\ pc = "Executing"
    /\ parts[1] \in DISPATCH
    /\ \E o \in {"returned_text", "returned_empty", "raised"} :
          /\ parts[1] = N_history => o = "returned_text"
          /\ parts[1] = N_help => o = "returned_text"
          /\ outcome' = o
          /\ printed' = CASE o = "raised" -> parts[1] \o T_ColonError \o T_ExcMsg
                          [] o = "returned_empty" -> <<>>
                          [] OTHER -> IF parts[1] = N_history THEN cmd_history
                                      ELSE IF parts[1] = N_help THEN T_HelpText
                                      ELSE T_Output
    /\ pc' = "Reading"
    /\ UNCHANGED <<readlineAvail, line, parts, histFile, histExists, rlHistory,
                   pending, persistCalls, consumed, fileAtStart, nread,
                   tokVars, fsVars, compVars>>

\* The branch for "?": cmd_help's text is printed.
ExecHelpAlias ==
    /\ pc = "Executing"
    /\ parts[1] \notin DISPATCH
    /\ parts[1] = N_qmark
    /\ outcome' = "returned_text"
    /\ printed' = T_HelpText
    /\ pc' = "Reading"
    /\ UNCHANGED <<readlineAvail, line, parts, histFile, histExists, rlHistory,
                   pending, persistCalls, consumed, fileAtStart, nread,
                   tokVars, fsVars, compVars>>

\* run_external_command(parts): every way the subprocess call can end is
\* turned into text.
run_external_command(cmd_tokens, o) ==
    CASE o = "ok_output" -> T_Output
      [] o = "ok_silent" -> <<>>
      [] o = "nonzero_output" -> T_Output
      [] o = "nonzero_silent" -> T_ExitedWith \o Str(1)
      [] o = "not_found" -> cmd_tokens[1] \o T_NotFound
      [] OTHER -> T_ErrorRunning \o T_ExcMsg

ExternalOutcomes == {"ok_output", "ok_silent", "nonzero_output",
                     "nonzero_silent", "not_found", "other_error"}

ExecExternal ==
    /\ pc = "Executing"
    /\ parts[1] \notin DISPATCH
    /\ parts[1] # N_qmark
    /\ \E o \in ExternalOutcomes :
          /\ outcome' = o
          /\ printed' = run_external_command(parts, o)
    /\ pc' = "Reading"
    /\ UNCHANGED <<readlineAvail, line, parts, histFile, histExists, rlHistory,
                   pending, persistCalls, consumed, fileAtStart, nread,
                   tokVars, fsVars, compVars>>

\* Ctrl-C while a command runs: KeyboardInterrupt is no Exception, so neither
\* the loop's handler nor run_external_command's catches it.
InterruptExec ==
    /\ pc = "Executing"
    /\ outcome' = "interrupted"
    /\ pending' = "KeyboardInterrupt"
    /\ pc' = "LoopFinally"
    /\ UNCHANGED <<readlineAvail, line, parts, histFile, histExists, rlHistory,
                   printed, persistCalls, consumed, fileAtStart, nread,
                   tokVars, fsVars, compVars>>

\* main_loop's finally clause; then the exception, if any, reaches __main__.
LoopFinally ==
    /\ pc = "LoopFinally"
    /\ SaveHistoryOnExit
    /\ pc' = IF pending = "ValueError" THEN "Fatal" ELSE "MainFinally"
    /\ UNCHANGED <<readlineAvail, line, parts, rlHistory, printed, outcome,
                   pending, consumed, fileAtStart, nread, tokVars, fsVars,
                   compVars>>

\* __main__'s except Exception: print("Fatal error:", e)
Fatal ==
    /\ pc = "Fatal"
    /\ printed' = T_FatalError \o Tokenize(line).err
    /\ pending' = "none"
    /\ pc' = "MainFinally"
    /\ UNCHANGED <<readlineAvail, line, parts, histFile, histExists, rlHistory,
                   outcome, persistCalls, consumed, fileAtStart, nread,
                   tokVars, fsVars, compVars>>

\* __main__'s finally clause: the second save and the farewell.
MainFinally ==
    /\ pc = "MainFinally"
    /\ SaveHistoryOnExit
    /\ printed' = T_Farewell
    /\ pc' = "Exited"
    /\ UNCHANGED <<readlineAvail, line, parts, rlHistory, outcome, pending,
                   consumed, fileAtStart, nread, tokVars, fsVars, compVars>>

\* The program is started again: a new process, the same history file.
NewSession ==
    /\ pc = "Exited"
    /\ pc' = "Start"
    /\ line' = <<>> /\ parts' = <<>> /\ rlHistory' = <<>> /\ printed' = <<>>
    /\ outcome' = "none" /\ pending' = "none" /\ persistCalls' = 0
    /\ consumed' = <<>> /\ fileAtStart' = histFile
    /\ UNCHANGED <<readlineAvail, histFile, histExists, nread, tokVars,
                   fsVars, compVars>>

Next ==
    \/ LoadHistory \/ ReadLine \/ ReadEnd \/ AppendHistoryLine
    \/ TokenizeLine \/ Resolve \/ ExecBuiltin \/ ExecHelpAlias
    \/ ExecExternal \/ InterruptExec \/ LoopFinally \/ Fatal \/ MainFinally
    \/ NewSession

Spec == LoopInit /\ [][Next]_vars

(***************************************************************************)
(* Properties of the session loop.                                         *)
(***************************************************************************)
\* The positions at which the process is inside main_loop's try block or
\* about to run its finally clause.
InLoop == {"Reading", "Appending", "Tokenizing", "Resolving", "Executing",
           "LoopFinally"}

\* A line that is neither empty nor made of whitespace only.
HasVisibleChar(l) == \E i \in 1..Len(l) : l[i] # " "

\* The lines of this process that have passed the append step.
PastAppend == IF pc = "Appending" THEN Front(consumed) ELSE consumed

\* C1 (as stated): when the tokenization of a line fails, the loop returns
\* to Reading, so that the session goes on with the next line.
C1_TokenizeErrorReturnsToReading ==
    [][(pc = "Tokenizing" /\ ~Tokenize(line).ok) => pc' = "Reading"]_vars

C3_ExitedImpliesPersisted ==
    pc = "Exited" =>
        /\ persistCalls >= 1
        /\ readlineAvail => (histExists /\ histFile = rlHistory)

\* C3 witness: the session ended by an error that escaped the loop.
C3_Witness ==
    /\ pc = "Exited"
    /\ outcome = "tokenize_error"
    /\ readlineAvail
    /\ Len(histFile) >= 2

\* C4 (as stated): an entry the history builtin shows with number k keeps
\* its number and text through every later step: append, final persist,
\* later session.
C4_NumbersStable ==
    [][\A k \in 1..Len(histFile) :
          /\ k <= Len(histFile')
          /\ CmdHistoryNumbered(histFile')[k] = CmdHistoryNumbered(histFile)[k]
      ]_vars

ErrorOutcomes == {"raised", "nonzero_output", "nonzero_silent", "not_found",
                  "other_error"}

\* C5: a command that ends in an error (a handler's exception, an external
\* command's non-zero exit, a missing executable, another error of the
\* subprocess call) leaves the loop in Reading with the error printed as
\* text; a handler's exception is printed as <command>: error: <message>.
C5_ErrorsReturnToReading ==
    [][(pc = "Executing" /\ outcome' \in ErrorOutcomes) =>
          /\ pc' = "Reading"
          /\ pending' = "none"
          /\ printed' # <<>>
          /\ outcome' = "raised" =>
                 printed' = parts[1] \o T_ColonError \o T_ExcMsg
          /\ outcome' = "not_found" => printed' = parts[1] \o T_NotFound
      ]_vars

\* C5 witness: a handler raised and the loop is reading the next line.
C5_Witness ==
    /\ pc = "Reading"
    /\ outcome = "raised"
    /\ printed = N_top \o T_ColonError \o T_ExcMsg

(***************************************************************************)
(* The filesystem of the builtins.  A path is a sequence of components;    *)
(* an absolute path starts with the component "/".  The filesystem is a    *)
(* function from the absolute paths that exist to "dir" or, for a regular  *)
(* file, its contents.  There are no symbolic links in the model, and the  *)
(* user may read and write everything.                                     *)
(***************************************************************************)
Home == <<"/", "h">>

Cwd0 == <<"/", "w">>

\* os.path.expanduser: a leading ~ component becomes the home directory.
expanduser(p) == IF p # <<>> /\ p[1] = "~" THEN Home \o Tail(p) ELSE p

NotDot(c) == c # "."

\* How the operating system resolves a path operand against the working
\* directory.
Abs(cw, p) ==
    SelectSeq(IF p # <<>> /\ p[1] = "/" THEN p ELSE cw \o p, NotDot)

Exists(f, p) == p \in DOMAIN f

IsDir(f, p) == p \in DOMAIN f /\ f[p] = "dir"

IsFile(f, p) == p \in DOMAIN f /\ f[p] # "dir"

Children(f, p) == {q \in DOMAIN f : Len(q) = Len(p) + 1 /\ StartsWith(q, p)}

Descendants(f, p) == {q \in DOMAIN f : StartsWith(q, p)}

Put(f, p, v) == [q \in DOMAIN f \cup {p} |-> IF q = p THEN v ELSE f[q]]

Without(f, S) == [q \in DOMAIN f \ S |-> f[q]]

Ok(f) == [ok |-> TRUE, fs |-> f, err |-> "none"]

Fail(f, e) == [ok |-> FALSE, fs |-> f, err |-> e]

\* os.rmdir / Path.rmdir
os_rmdir(f, p) ==
    IF ~Exists(f, p) THEN Fail(f, "FileNotFoundError")
    ELSE IF ~IsDir(f, p) THEN Fail(f, "NotADirectoryError")
    ELSE IF Children(f, p) # {} THEN Fail(f, "OSError: Directory not empty")
    ELSE Ok(Without(f, {p}))

\* os.unlink / Path.unlink
os_unlink(f, p) ==
    IF ~Exists(f, p) THEN Fail(f, "FileNotFoundError")
    ELSE IF IsDir(f, p) THEN Fail(f, "IsADirectoryError")
    ELSE Ok(Without(f, {p}))

\* Path.mkdir(parents=True, exist_ok=exist_ok)
RECURSIVE MkdirParents(_, _, _)
MkdirParents(f, p, exist_ok) ==
    IF Exists(f, p)
    THEN IF exist_ok /\ IsDir(f, p) THEN Ok(f) ELSE Fail(f, "FileExistsError")
    ELSE IF IsDir(f, Front(p)) THEN Ok(Put(f, p, "dir"))
    ELSE IF Exists(f, Front(p)) THEN Fail(f, "NotADirectoryError")
    ELSE LET up == MkdirParents(f, Front(p), TRUE)
         IN  IF up.ok THEN Ok(Put(up.fs, p, "dir")) ELSE up

\* shutil.copy2(src, dst): into dst when dst is a directory.
copy2(f, src, dst) ==
    LET to == IF IsDir(f, dst) THEN Append(dst, Last(src)) ELSE dst
    IN  IF Exists(f, src) /\ src = to THEN Fail(f, "SameFileError")
        ELSE IF ~Exists(f, src) THEN Fail(f, "FileNotFoundError")
        ELSE IF IsDir(f, src) THEN Fail(f, "IsADirectoryError")
        ELSE IF IsDir(f, to) THEN Fail(f, "IsADirectoryError")
        ELSE IF ~Exists(f, Front(to)) THEN Fail(f, "FileNotFoundError")
        ELSE IF ~IsDir(f, Front(to)) THEN Fail(f, "NotADirectoryError")
        ELSE Ok(Put(f, to, f[src]))

\* The image of a path below src after src has become dst.
Rebase(q, src, dst) == dst \o SubSeq(q, Len(src) + 1, Len(q))

\* shutil.copytree(src, dst): dst must not exist; its parents are made.
copytree(f, src, dst) ==
    IF ~IsDir(f, src) THEN Fail(f, "NotADirectoryError")
    ELSE IF Exists(f, dst) THEN Fail(f, "FileExistsError")
    ELSE LET made == MkdirParents(f, dst, FALSE)
             tree == Descendants(f, src)
         IN  IF ~made.ok THEN made
             ELSE Ok([q \in DOMAIN made.fs \cup {Rebase(t, src, dst) : t \in tree}
                        |-> IF \E t \in tree : Rebase(t, src, dst) = q
                            THEN f[CHOOSE t \in tree : Rebase(t, src, dst) = q]
                            ELSE made.fs[q]])

\* shutil.move(src, dst): a rename, into dst when dst is a directory.  Where
\* os.rename fails, the fallback copies and deletes: for a directory that is
\* copytree, which makes the missing parents of the destination; for a file
\* it is copy2, which fails as the rename did.
move(f, src, dst) ==
    LET to == IF IsDir(f, dst) /\ src # dst THEN Append(dst, Last(src)) ELSE dst
        tree == Descendants(f, src)
        made == IF IsDir(f, src) THEN MkdirParents(f, Front(to), TRUE)
                ELSE IF IsDir(f, Front(to)) THEN Ok(f)
                ELSE IF Exists(f, Front(to)) THEN Fail(f, "NotADirectoryError")
                ELSE Fail(f, "FileNotFoundError")
    IN  IF IsDir(f, dst) /\ src # dst /\ Exists(f, to)
        THEN Fail(f, "Error: already exists")
        ELSE IF ~Exists(f, src) THEN Fail(f, "FileNotFoundError")
        ELSE IF src = to THEN Ok(f)
        ELSE IF IsDir(f, src) /\ StartsWith(to, src)
             THEN Fail(f, "Error: Cannot move a directory into itself")
        ELSE IF IsDir(f, src) /\ Exists(f, to) THEN Fail(f, "FileExistsError")
        ELSE IF ~made.ok THEN Fail(f, made.err)
        ELSE Ok([q \in (DOMAIN made.fs \ tree) \cup {Rebase(t, src, to) : t \in tree}
                   |-> IF \E t \in tree : Rebase(t, src, to) = q
                       THEN f[CHOOSE t \in tree : Rebase(t, src, to) = q]
                       ELSE made.fs[q]])

(***************************************************************************)
(* The filesystem builtins.  A handler yields the new filesystem and       *)
(* working directory, its output lines, and sys: the path operands it      *)
(* handed to the filesystem calls, as it handed them.                      *)
(***************************************************************************)
Diag(cmd, target, msg) ==
    [kind |-> "diag", cmd |-> cmd, target |-> target, msg |-> msg]

Text(cmd, target, msg) ==
    [kind |-> "text", cmd |-> cmd, target |-> target, msg |-> msg]

Done(f, cw, outs, sys) == [fs |-> f, cwd |-> cw, outs |-> outs, sys |-> sys]

\* The order sorted() gives the names of the model.
NameOrder == <<"a", "d", "h", "t", "w", "~">>

\* list_dir(path): the sorted names, directories marked with "/".
list_dir(f, a) ==
    LET names == {Last(q) : q \in Children(f, a)}
        Listed(n) == n \in names
        sorted == SelectSeq(NameOrder, Listed)
    IN  [i \in 1..Len(sorted) |->
            Text("ls", <<sorted[i]>>,
                 IF IsDir(f, Append(a, sorted[i])) THEN "/" ELSE "")]

\* cmd_ls: the path is listed as given.
cmd_ls(f, cw, args) ==
    LET path == IF args = <<>> THEN <<".">> ELSE args[1]
        a == Abs(cw, path)
    IN  IF IsDir(f, a) THEN Done(f, cw, list_dir(f, a), <<path>>)
        ELSE Done(f, cw, <<Diag("ls", path, "cannot access")>>, <<path>>)

\* cmd_cd
cmd_cd(f, cw, args) ==
    LET target == IF args = <<>> THEN Home ELSE args[1]
        a == Abs(cw, expanduser(target))
    IN  IF IsDir(f, a) THEN Done(f, a, <<>>, <<expanduser(target)>>)
        ELSE Done(f, cw, <<Diag("cd", target, "chdir failed")>>,
                  <<expanduser(target)>>)

\* One turn of the for loop of a multi-target builtin; dest is the
\* destination directory of mv and cp with several sources.
mkdir_target(f, cw, d) ==
    LET r == MkdirParents(f, Abs(cw, expanduser(d)), FALSE)
    IN  Done(r.fs, cw,
             IF r.ok THEN <<>>
             ELSE IF r.err = "FileExistsError"
                  THEN <<Diag("mkdir", d, "cannot create directory: File exists")>>
             ELSE <<Diag("mkdir", d, r.err)>>,
             <<expanduser(d)>>)

\* Mutant of rm_target: a non-empty directory is removed with its contents.
rm_target_Recursive(f, cw, target) ==
    LET path == Abs(cw, expanduser(target))
    IN  IF Exists(f, path)
        THEN Done(Without(f, Descendants(f, path)), cw, <<>>, <<expanduser(target)>>)
        ELSE Done(f, cw, <<Diag("rm", target,
                                "cannot remove: No such file or directory")>>,
                  <<expanduser(target)>>)

rm_target(f, cw, target) ==
    LET path == Abs(cw, expanduser(target))
        r == IF IsDir(f, path) THEN os_rmdir(f, path) ELSE os_unlink(f, path)
    IN  Done(r.fs, cw,
             IF r.ok THEN <<>>
             ELSE IF IsDir(f, path)
                  THEN <<Diag("rm", target, "cannot remove: Directory not empty")>>
             ELSE IF r.err = "FileNotFoundError"
                  THEN <<Diag("rm", target,
                              "cannot remove: No such file or directory")>>
             ELSE <<Diag("rm", target, r.err)>>,
             <<expanduser(target)>>)

rmdir_target(f, cw, d) ==
    LET r == os_rmdir(f, Abs(cw, expanduser(d)))
    IN  Done(r.fs, cw, IF r.ok THEN <<>> ELSE <<Diag("rmdir", d, r.err)>>,
             <<expanduser(d)>>)

cat_target(f, cw, fname) ==
    LET a == Abs(cw, expanduser(fname))
    IN  Done(f, cw,
             IF IsFile(f, a) THEN <<Text("cat", fname, f[a])>>
             ELSE IF IsDir(f, a) THEN <<Diag("cat", fname, "IsADirectoryError")>>
             ELSE <<Diag("cat", fname, "FileNotFoundError")>>,
             <<expanduser(fname)>>)

touch_target(f, cw, t) ==
    LET a == Abs(cw, expanduser(t))
        r == MkdirParents(f, Front(a), TRUE)
    IN  IF ~r.ok THEN Done(f, cw, <<Diag("touch", t, r.err)>>, <<expanduser(t)>>)
        ELSE IF Exists(r.fs, a) THEN Done(r.fs, cw, <<>>, <<expanduser(t)>>)
        ELSE Done(Put(r.fs, a, ""), cw, <<>>, <<expanduser(t)>>)

\* shutil.move(s, str(dest)): the source is passed as typed.
mv_source(f, cw, src, dest) ==
    LET r == move(f, Abs(cw, src), dest)
    IN  Done(r.fs, cw, IF r.ok THEN <<>> ELSE <<Diag("mv", src, r.err)>>, <<src>>)

\* shutil.copy2(str(s_path), str(dest / s_path.name))
cp_source(f, cw, src, dest) ==
    LET s_path == expanduser(src)
        r == copy2(f, Abs(cw, s_path), Append(dest, Last(s_path)))
    IN  Done(r.fs, cw, IF r.ok THEN <<>> ELSE <<Diag("cp", src, r.err)>>,
             <<s_path>>)

TargetStep(cmd, f, cw, t, dest) ==
    CASE cmd = "mkdir" -> mkdir_target(f, cw, t)
      [] cmd = "rm" -> rm_target(f, cw, t)
      [] cmd = "rmdir" -> rmdir_target(f, cw, t)
      [] cmd = "cat" -> cat_target(f, cw, t)
      [] cmd = "touch" -> touch_target(f, cw, t)
      [] cmd = "mv" -> mv_source(f, cw, t, dest)
      [] OTHER -> cp_source(f, cw, t, dest)

(***************************************************************************)
(* FsSpec: one builtin is called with a list of at most MaxArgs path       *)
(* arguments on one of the filesystems of InitFs.  The for loop of a       *)
(* multi-target builtin takes one step per target.                         *)
(***************************************************************************)
BaseFs == [q \in {<<"/">>, Home, Cwd0, Append(Home, "a")} |->
              IF q = Append(Home, "a") THEN "H" ELSE "dir"]

\* The optional parts: /w/a, /w/d (empty, or holding the file a), /w/t.
OptA == {{}, {<<Append(Cwd0, "a"), "A">>}}

OptD == {{}, {<<Append(Cwd0, "d"), "dir">>},
         {<<Append(Cwd0, "d"), "dir">>, <<Cwd0 \o <<"d", "a">>, "B">>}}

OptT == {{}, {<<Append(Cwd0, "t"), "T">>}, {<<Append(Cwd0, "t"), "dir">>}}

WithNodes(f, S) ==
    [q \in DOMAIN f \cup {e[1] : e \in S} |->
        IF \E e \in S : e[1] = q THEN (CHOOSE e \in S : e[1] = q)[2] ELSE f[q]]

InitFs == {WithNodes(BaseFs, a \cup d \cup t) : a \in OptA, d \in OptD, t \in OptT}

\* The path arguments a user types: a, d, t, d/a, ~/a, and for ls and cd ~.
PathArgs == {<<"a">>, <<"d">>, <<"t">>, <<"d", "a">>, <<"~", "a">>}

ArgLists == SeqsUpTo(PathArgs, MaxArgs)

ArgLists1 == SeqsUpTo(PathArgs \cup {<<"~">>}, 1)

FsInit ==
    /\ fsPc = "ready" /\ fs \in InitFs /\ fs0 = fs /\ cwd = Cwd0
    /\ fsCmd = "none" /\ fsArgs = <<>> /\ fsTodo = <<>> /\ fsDest = <<>>
    /\ fsOuts = <<>> /\ sysPaths = <<>>
    /\ LoopIdle /\ TokIdle /\ CompIdle

\* The handler returns without a loop.
Return(cmd, args, r) ==
    /\ fsCmd' = cmd /\ fsArgs' = args
    /\ fs' = r.fs /\ cwd' = r.cwd /\ fsOuts' = r.outs /\ sysPaths' = r.sys
    /\ fsTodo' = <<>> /\ fsDest' = <<>>
    /\ fsPc' = "done"
    /\ UNCHANGED <<fs0, loopVars, tokVars, compVars>>

\* The handler enters its for loop over targets.
EnterLoop(cmd, args, r, targets, dest) ==
    /\ fsCmd' = cmd /\ fsArgs' = args
    /\ fs' = r.fs /\ cwd' = r.cwd /\ fsOuts' = r.outs /\ sysPaths' = r.sys
    /\ fsTodo' = targets /\ fsDest' = dest
    /\ fsPc' = "loop"
    /\ UNCHANGED <<fs0, loopVars, tokVars, compVars>>

MissingOperand(cmd) == Done(fs, cwd, <<Text(cmd, <<>>, "missing operand")>>, <<>>)

\* cmd_mkdir, cmd_rm, cmd_rmdir, cmd_cat, cmd_touch up to the loop.
MultiTarget(cmd) ==
    /\ fsPc = "ready"
    /\ \E args \in ArgLists :
          IF args = <<>> THEN Return(cmd, args, MissingOperand(cmd))
          ELSE EnterLoop(cmd, args, Done(fs, cwd, <<>>, <<>>), args, <<>>)

CmdLs == fsPc = "ready" /\ \E args \in ArgLists1 : Return("ls", args, cmd_ls(fs, cwd, args))

CmdCd == fsPc = "ready" /\ \E args \in ArgLists1 : Return("cd", args, cmd_cd(fs, cwd, args))

CmdMkdir == MultiTarget("mkdir")

CmdRm == MultiTarget("rm")

CmdRmdir == MultiTarget("rmdir")

CmdCat == MultiTarget("cat")

CmdTouch == MultiTarget("touch")

\* cmd_mv up to the loop: only the destination is expanded.
CmdMv ==
    /\ fsPc = "ready"
    /\ \E args \in ArgLists :
          LET sources == Front(args)
              dest == expanduser(Last(args))
              made == MkdirParents(fs, Abs(cwd, dest), TRUE)
          IN  IF Len(args) < 2 THEN Return("mv", args, MissingOperand("mv"))
              ELSE IF Len(sources) > 1 /\ ~made.ok
              THEN Return("mv", args,
                          Done(fs, cwd, <<Text("mv", <<>>, made.err)>>, <<dest>>))
              ELSE EnterLoop("mv", args,
                             Done(IF Len(sources) > 1 THEN made.fs ELSE fs, cwd,
                                  <<>>, <<dest>>),
                             sources, Abs(cwd, dest))

\* cmd_cp up to the loop; a single source is copied here, a directory with
\* copytree.
CmdCp ==
    /\ fsPc = "ready"
    /\ \E args \in ArgLists :
          LET sources == Front(args)
              dest == expanduser(Last(args))
              made == MkdirParents(fs, Abs(cwd, dest), TRUE)
              s_path == expanduser(sources[1])
              target == IF IsDir(fs, Abs(cwd, dest))
                        THEN Append(Abs(cwd, dest), Last(s_path))
                        ELSE Abs(cwd, dest)
              r == IF IsDir(fs, Abs(cwd, s_path))
                   THEN copytree(fs, Abs(cwd, s_path), target)
                   ELSE copy2(fs, Abs(cwd, s_path), target)
          IN  IF Len(args) < 2 THEN Return("cp", args, MissingOperand("cp"))
              ELSE IF Len(sources) > 1 /\ ~made.ok
              THEN Return("cp", args,
                          Done(fs, cwd, <<Text("cp", <<>>, made.err)>>, <<dest>>))
              ELSE IF Len(sources) > 1
              THEN EnterLoop("cp", args, Done(made.fs, cwd, <<>>, <<dest>>),
                             sources, Abs(cwd, dest))
              ELSE Return("cp", args,
                          Done(r.fs, cwd,
                               IF r.ok THEN <<>>
                               ELSE <<Diag("cp", s_path, r.err)>>,
                               <<dest, s_path>>))

\* One turn of the for loop: the target is attempted, its diagnostic, if
\* any, is collected, and the loop goes on.
NextTarget ==
    /\ fsPc = "loop"
    /\ LET r == TargetStep(fsCmd, fs, cwd, Head(fsTodo), fsDest)
       IN  /\ fs' = r.fs
           /\ fsOuts' = fsOuts \o r.outs
           /\ sysPaths' = sysPaths \o r.sys
    /\ fsTodo' = Tail(fsTodo)
    /\ fsPc' = IF Tail(fsTodo) = <<>> THEN "done" ELSE "loop"
    /\ UNCHANGED <<fs0, cwd, fsCmd, fsArgs, fsDest, loopVars, tokVars, compVars>>

FsNext ==
    \/ CmdLs \/ CmdCd \/ CmdMkdir \/ CmdRm \/ CmdRmdir \/ CmdCat \/ CmdTouch
    \/ CmdMv \/ CmdCp \/ NextTarget

FsSpec == FsInit /\ [][FsNext]_vars

(***************************************************************************)
(* Properties of the filesystem builtins.                                  *)
(***************************************************************************)
\* What is removable: a regular file, or a directory with nothing in it.
Removable(f, p) == IsFile(f, p) \/ (IsDir(f, p) /\ Children(f, p) = {})

\* C6: every turn of rm's loop attempts its target and goes on to the next:
\* an existing file or empty directory is removed and adds no output; a
\* missing target or a non-empty directory leaves the filesystem as it was
\* and adds exactly one diagnostic line, naming the target; the loop ends
\* only after the last target.
C6_RemoveEachTarget ==
    [][(fsPc = "loop" /\ fsCmd = "rm") =>
          LET t == Abs(cwd, expanduser(Head(fsTodo)))
          IN  /\ fsTodo' = Tail(fsTodo)
              /\ (fsPc' = "done") <=> (Len(fsTodo) = 1)
              /\ IF Removable(fs, t)
                 THEN /\ fs' = Without(fs, {t})
                      /\ fsOuts' = fsOuts
                 ELSE /\ fs' = fs
                      /\ Len(fsOuts') = Len(fsOuts) + 1
                      /\ Last(fsOuts').kind = "diag"
                      /\ Last(fsOuts').target = Head(fsTodo)
      ]_vars

\* C6 witness: rm was called with a missing target, a non-empty directory
\* and an existing file, in this order; the file is gone, the directory is
\* untouched, and there are two diagnostic lines.
C6_Witness ==
    /\ fsPc = "done"
    /\ fsCmd = "rm"
    /\ fsArgs = <<<<"t">>, <<"d">>, <<"a">>>>
    /\ ~Exists(fs0, Append(Cwd0, "t"))
    /\ Exists(fs0, Cwd0 \o <<"d", "a">>)
    /\ Exists(fs0, Append(Cwd0, "a"))
    /\ fs = Without(fs0, {Append(Cwd0, "a")})
    /\ Len(fsOuts) = 2

\* The base names of the sources are pairwise different.
DistinctBaseNames(sources) ==
    \A i, j \in 1..Len(sources) :
        i # j => Last(expanduser(sources[i])) # Last(expanduser(sources[j]))

\* No source is the destination, inside it, or above it.
ApartFromDest(sources, dest) ==
    \A i \in 1..Len(sources) :
        /\ ~StartsWith(Abs(Cwd0, expanduser(sources[i])), Abs(Cwd0, expanduser(dest)))
        /\ ~StartsWith(Abs(Cwd0, expanduser(dest)), Abs(Cwd0, expanduser(sources[i])))

\* C7 (as stated, on its plain cases: the destination is not an existing
\* regular file, no two sources share a base name, and no source is the
\* destination or lies inside or above it): after cp with more
\* than one source the destination is a directory, and every source that
\* existed, regular file or directory, is still in place and has a copy,
\* recursive for a directory, at destination/<base name>.
C7_CopyManySources ==
    (/\ fsPc = "done" /\ fsCmd = "cp" /\ Len(fsArgs) > 2
     /\ ~IsFile(fs0, Abs(Cwd0, expanduser(Last(fsArgs))))
     /\ DistinctBaseNames(Front(fsArgs))
     /\ ApartFromDest(Front(fsArgs), Last(fsArgs)))
    => LET dest == Abs(Cwd0, expanduser(Last(fsArgs)))
       IN  /\ IsDir(fs, dest)
           /\ \A i \in 1..(Len(fsArgs) - 1) :
                 LET src == Abs(Cwd0, expanduser(fsArgs[i]))
                 IN  Exists(fs0, src) =>
                        \A q \in Descendants(fs0, src) :
                            /\ Exists(fs, q) /\ fs[q] = fs0[q]
                            /\ Exists(fs, Rebase(q, src, Append(dest, Last(src))))
                            /\ fs[Rebase(q, src, Append(dest, Last(src)))] = fs0[q]

\* C10 (as stated): no path operand that ls, cd, mkdir, rm, rmdir, cat,
\* touch, mv or cp hands to the filesystem still starts with the home
\* shorthand ~.
C10_TildeExpandedBeforeUse ==
    \A k \in 1..Len(sysPaths) : sysPaths[k] = <<>> \/ sysPaths[k][1] # "~"

(***************************************************************************)
(* Completion.  A PATH entry is the empty string, a directory that cannot  *)
(* be listed, or a directory with its entries in the order os.listdir      *)
(* gives them.  The filesystem seen by glob is a fixed list of entries,    *)
(* as text.                                                                *)
(***************************************************************************)
N_gcc == <<"g", "c", "c">>

HomeText == <<"/", "h">>

EmptyEntry == [kind |-> "empty", entries |-> <<>>]

Unlistable == [kind |-> "unlistable", entries |-> <<>>]

Listed(es) == [kind |-> "listed", entries |-> es]

DirChoices == {EmptyEntry, Unlistable, Listed(<<N_git, N_ls>>),
               Listed(<<N_ls, N_gcc, N_git>>)}

\* What glob can find, in the order it reports: /h, /h/a, /h/d/, /w, and b
\* in the working directory.
GlobEntries == <<[path |-> <<"/", "h">>, isdir |-> TRUE],
                 [path |-> <<"/", "h", "/", "a">>, isdir |-> FALSE],
                 [path |-> <<"/", "h", "/", "d">>, isdir |-> TRUE],
                 [path |-> <<"/", "w">>, isdir |-> TRUE],
                 [path |-> <<"b">>, isdir |-> FALSE]>>

CompTexts == {<<>>, <<"c">>, <<"g">>, <<"l", "s">>, <<"~", "/">>, <<"/", "h">>}

\* os.path.expanduser on text
expanduser_text(t) ==
    IF t # <<>> /\ t[1] = "~" /\ (Len(t) = 1 \/ t[2] = "/")
    THEN HomeText \o Tail(t) ELSE t

\* glob.glob(prefix + "*"): the entries that continue prefix within one
\* path component.
glob_star(prefix) ==
    LET Matches(e) ==
            /\ StartsWith(e.path, prefix)
            /\ \A i \in (Len(prefix) + 1)..Len(e.path) : e.path[i] # "/"
    IN  SelectSeq(GlobEntries, Matches)

\* path_complete(text)
path_complete(text) ==
    LET matches == glob_star(expanduser_text(text))
        Shown(e) == (IF StartsWith(e.path, HomeText)
                     THEN <<"~">> \o SubSeq(e.path, Len(HomeText) + 1, Len(e.path))
                     ELSE e.path)
                    \o (IF e.isdir THEN <<"/">> ELSE <<>>)
    IN  [i \in 1..Len(matches) |-> Shown(matches[i])]

\* Mutant of ScanDir: a name is added whether or not it was seen.
RECURSIVE ScanDir_NoSeen(_, _, _)
ScanDir_NoSeen(acc, entries, text) ==
    IF entries = <<>> THEN acc
    ELSE ScanDir_NoSeen(
             IF StartsWith(Head(entries), text)
             THEN [cands |-> Append(acc.cands, Head(entries)),
                   seen |-> acc.seen \cup {Head(entries)}]
             ELSE acc,
             Tail(entries), text)

\* for f in os.listdir(d): a matching name not seen before is added.
RECURSIVE ScanDir(_, _, _)
ScanDir(acc, entries, text) ==
    IF entries = <<>> THEN acc
    ELSE ScanDir(
             IF StartsWith(Head(entries), text) /\ Head(entries) \notin acc.seen
             THEN [cands |-> Append(acc.cands, Head(entries)),
                   seen |-> acc.seen \cup {Head(entries)}]
             ELSE acc,
             Tail(entries), text)

\* for d in path_dirs: an empty entry is skipped, a directory that cannot be
\* listed is passed over.
RECURSIVE ScanPath(_, _, _)
ScanPath(acc, dirs, text) ==
    IF dirs = <<>> THEN acc
    ELSE ScanPath(IF Head(dirs).kind = "listed"
                  THEN ScanDir(acc, Head(dirs).entries, text)
                  ELSE acc,
                  Tail(dirs), text)

\* The candidate list completer builds on every call.
Candidates(text, begidx, path_dirs) ==
    LET Match(c) == StartsWith(c, text)
        builtins == SelectSeq(BUILTINS, Match)
    IN  IF begidx = 0
        THEN ScanPath([cands |-> builtins, seen |-> Range(builtins)],
                      path_dirs, text).cands
        ELSE path_complete(text)

CompInit ==
    /\ cPc = "call" /\ cText \in CompTexts /\ cBegidx \in {0, 3}
    /\ cPathDirs \in SeqsUpTo(DirChoices, MaxPathDirs)
    /\ cState = 0 /\ cResults = <<>>
    /\ LoopIdle /\ TokIdle /\ FsIdle

\* completer(text, state): candidates[state], or None past the end.
completer ==
    /\ cPc = "call"
    /\ LET candidates == Candidates(cText, cBegidx, cPathDirs)
       IN  IF cState < Len(candidates)
           THEN /\ cResults' = Append(cResults, candidates[cState + 1])
                /\ cState' = cState + 1
                /\ cPc' = "call"
           ELSE /\ cPc' = "done"
                /\ UNCHANGED <<cResults, cState>>
    /\ UNCHANGED <<cText, cBegidx, cPathDirs, loopVars, tokVars, fsVars>>

CompNext == completer

CompSpec == CompInit /\ [][CompNext]_vars

(***************************************************************************)
(* Properties of completion.                                               *)
(***************************************************************************)
\* The entries of the listable PATH directories, in PATH order.
RECURSIVE Discovery(_)
Discovery(dirs) ==
    IF dirs = <<>> THEN <<>>
    ELSE (IF Head(dirs).kind = "listed" THEN Head(dirs).entries ELSE <<>>)
         \o Discovery(Tail(dirs))

FirstIndex(s, x) == CHOOSE i \in 1..Len(s) : s[i] = x /\ \A j \in 1..(i - 1) : s[j] # x

\* C9: at command position the candidates returned for ordinals 0, 1, 2,
\* ... have no duplicates; they start with the builtin names that match the
\* prefix, each once, in registry order; the rest are exactly the matching
\* names found in the listable search-path directories that are not builtin
\* names already given, in the order of their first discovery.  A directory
\* that cannot be listed adds nothing.
C9_CommandCandidates ==
    (cPc = "done" /\ cBegidx = 0) =>
        LET Match(c) == StartsWith(c, cText)
            builtins == SelectSeq(BUILTINS, Match)
            nb == Len(builtins)
            found == Discovery(cPathDirs)
        IN  /\ NoDuplicates(cResults)
            /\ Len(cResults) >= nb
            /\ SubSeq(cResults, 1, nb) = builtins
            /\ {cResults[i] : i \in (nb + 1)..Len(cResults)}
                   = {x \in Range(found) : Match(x)} \ Range(builtins)
            /\ \A i, j \in (nb + 1)..Len(cResults) :
                   i < j => FirstIndex(found, cResults[i])
                                < FirstIndex(found, cResults[j])

\* C9 witness: the empty prefix, a search path with a directory that cannot
\* be listed and one that holds an executable named ls: the 18 builtins and
\* git were returned.
C9_Witness ==
    /\ cPc = "done" /\ cBegidx = 0 /\ cText = <<>>
    /\ cPathDirs = <<Unlistable, Listed(<<N_git, N_ls>>)>>
    /\ cResults = Append(BUILTINS, N_git)

====
